---- MODULE Spec2Model ----
(***************************************************************************)
(* The Ntree block-signing protocol: a tree of participants signs a block  *)
(* in two rounds.  Every participant runs one listen loop (a goroutine     *)
(* selecting on four message channels), one VerifyBlock goroutine and one  *)
(* verifySignatureRequest goroutine; the goroutines hand their result to   *)
(* the loop over an unbuffered channel.                                    *)
(***************************************************************************)
EXTENDS Bags, FiniteSets, Integers, Sequences, TLC

\* ---------------------------------------------------------------- bounds
\* largest tree (number of participants) explored
MaxN == 3
\* longest list of signatures in a SignatureRequest drawn as an input
MaxSigs == 3
\* longest list of exceptions in a SignatureRequest drawn as an input
MaxExc == 2
\* number of messages the overlay may deliver twice (SpecDup only)
MaxDup == 1
\* the most transactions parser.Parse returns
MaxParsed == 3
\* the largest numTxs a caller asks for
MaxTxs == 4

\* ---------------------------------------------------------------- values
Blocks == {"blkA", "blkB"}
NoBlock == "nil"

VARIABLES
  parent,                         \* the tree: parent[n], 0 for the root
  valid,                          \* valid[n]: what VerifyBlock finds at n
  block,                          \* nt.block
  onDoneCallback,                 \* nt.onDoneCallback of the root is set
  started,                        \* Start() has been called on the root
  vbTask,                         \* the VerifyBlock goroutine of each node
  vsTask,                         \* the verifySignatureRequest goroutine
  tempBlockSig,                   \* nt.tempBlockSig
  tempBlockSigReceived,           \* nt.tempBlockSigReceived
  tempSignatureResponse,          \* nt.tempSignatureResponse
  tempSignatureResponseReceived,  \* nt.tempSignatureResponseReceived
  loop,                           \* position of each listen goroutine
  okSig,                          \* ok, as last read in computeSignatureResponse
  net,                            \* messages in flight (a bag)
  done,                           \* the invocations of onDoneCallback
  dups,                           \* duplicate deliveries made by the overlay
  client,                         \* the run of Client.triggerTransactions
  sendFails,                      \* the sends of the overlay that return an error
  dropped                         \* the messages in flight the overlay has lost

vars == <<parent, valid, block, onDoneCallback, started, vbTask, vsTask,
          tempBlockSig, tempBlockSigReceived, tempSignatureResponse,
          tempSignatureResponseReceived, loop, okSig, net, done, dups, client, sendFails,
          dropped>>

\* ------------------------------------------------------------- the tree
N == Len(parent)
Nodes == 1..N
Root == 1
Children(n) == {c \in Nodes : parent[c] = n}
IsLeaf(n) == Children(n) = {}
IsRoot(n) == parent[n] = 0

\* every rooted tree over 1..k, labelled so that a parent precedes its children
Trees(k) == {p \in [1..k -> 0..k] : p[1] = 0 /\ \A i \in 2..k : p[i] \in 1..(i-1)}

\* ------------------------------------------------------ data structures
EmptyBundle == [Sigs |-> <<>>, Exceptions |-> <<>>]
Exception(n) == [ID |-> n]

\* json.Marshal(nt.block) and json.Marshal(nt.block.Header)
MarshalBlock(b) == <<"block", b>>
MarshalHeader(b) == <<"header", b>>

\* crypto.SignSchnorr(suite, private key of n, payload)
SignSchnorr(n, payload) == [signer |-> n, payload |-> payload]
\* crypto.VerifySchnorr(suite, public key pub, payload, sig): err == nil
VerifySchnorr(pub, payload, sig) == sig.signer = pub /\ sig.payload = payload

Size(bundle) == Len(bundle.Sigs) + Len(bundle.Exceptions)

\* append(nt.temp.Sigs, msg.Sigs...) ; append(nt.temp.Exceptions, msg.Exceptions...)
Merge(bundle, msg) ==
  [Sigs |-> bundle.Sigs \o msg.Sigs, Exceptions |-> bundle.Exceptions \o msg.Exceptions]

Msg(type, src, dst, b, bundle) ==
  [type |-> type, src |-> src, dst |-> dst, block |-> b,
   Sigs |-> bundle.Sigs, Exceptions |-> bundle.Exceptions]
Body(m) == [Sigs |-> m.Sigs, Exceptions |-> m.Exceptions]

\* nt.SendTo(tn, msg) for every tn of nt.Children()
SendToChildren(n, type, b, bundle) ==
  SetToBag({Msg(type, n, c, b, bundle) :
              c \in {x \in Children(n) : <<x, type>> \notin sendFails}})
\* Start: for _, tn := range nt.Children() with return err at the first send that
\* fails; the children are ranged over in the order of their numbers
StartSends ==
  SetToBag({Msg("BlockAnnounce", Root, c, block[Root], EmptyBundle) :
              c \in {x \in Children(Root) :
                       \A y \in Children(Root) :
                          y <= x => <<y, "BlockAnnounce">> \notin sendFails}})
\* nt.SendTo(nt.Parent(), msg)
SendToParent(n, type, bundle) ==
  SetToBag({Msg(type, n, parent[n], NoBlock, bundle)})

Idle == [pc |-> "select", from |-> "none", msg |-> EmptyBundle]
NoTask == [pc |-> "none", msg |-> EmptyBundle, goodSig |-> 0, sent |-> 0]

\* a client on which StartClientSimulation is called with nTxs, parser.Parse
\* about to return transactions and parseErr
NewClient(nTxs, transactions, parseErr) ==
  [pc |-> "start", nTxs |-> nTxs, transactions |-> transactions, err |-> parseErr,
   consumed |-> 0, next |-> 1, added |-> <<>>, result |-> "none"]
\* no client simulation in the run
NoClient == [pc |-> "none"]

TypeOK ==
  /\ N >= 1
  /\ started \in BOOLEAN /\ onDoneCallback \in BOOLEAN
  /\ \A n \in Nodes :
       /\ vbTask[n] \in {"none", "running", "send", "done"}
       /\ vsTask[n].pc \in {"none", "running", "sendExceptions", "sendGoodSig", "sendTrue", "done"}
       /\ loop[n].pc \in {"select", "computeBlockSignature", "computeSignatureResponse"}
       /\ block[n] \in Blocks \cup {NoBlock}
  /\ dups \in 0..MaxDup

\* ----------------------------------------------------------------- Init
\* NewNtreeProtocol on every node, NewNTreeRootProtocol on the root
InitNodes ==
  /\ onDoneCallback = FALSE
  /\ started = FALSE
  /\ vbTask = [n \in Nodes |-> "none"]
  /\ vsTask = [n \in Nodes |-> NoTask]
  /\ tempBlockSig = [n \in Nodes |-> EmptyBundle]
  /\ tempBlockSigReceived = [n \in Nodes |-> 0]
  /\ tempSignatureResponse = [n \in Nodes |-> EmptyBundle]
  /\ tempSignatureResponseReceived = [n \in Nodes |-> 0]
  /\ loop = [n \in Nodes |-> Idle]
  /\ okSig = [n \in Nodes |-> "none"]
  /\ done = <<>>
  /\ dups = 0

Init ==
  /\ \E k \in 1..MaxN : parent \in Trees(k)
  /\ valid \in [Nodes -> BOOLEAN]
  /\ \E b \in Blocks : block = [n \in Nodes |-> IF n = Root THEN b ELSE NoBlock]
  /\ net = EmptyBag
  /\ client = NoClient
  /\ sendFails = {}
  /\ dropped = {}
  /\ InitNodes


\* ------------------------------------------------------- the driver
\* RegisterOnDone: the driver registers the callback before it starts the run
RegisterOnDone ==
  /\ ~started /\ ~onDoneCallback
  /\ onDoneCallback' = TRUE
  /\ UNCHANGED <<dropped, sendFails, client, parent, valid, block, started, vbTask, vsTask, tempBlockSig,
                 tempBlockSigReceived, tempSignatureResponse,
                 tempSignatureResponseReceived, loop, okSig, net, done, dups>>

\* variant of Start: a root without children goes on to its own block signature,
\* as a leaf does when it takes an Announce
StartLeafContributes ==
  /\ ~started
  /\ started' = TRUE
  /\ vbTask' = [vbTask EXCEPT ![Root] = "running"]
  /\ net' = net (+) StartSends
  /\ loop' = IF IsLeaf(Root)
               THEN [loop EXCEPT ![Root] =
                       [pc |-> "computeBlockSignature", from |-> "startBlockSignature",
                        msg |-> EmptyBundle]]
               ELSE loop
  /\ UNCHANGED <<dropped, sendFails, client, parent, valid, block, onDoneCallback,
                 vsTask, tempBlockSig, tempBlockSigReceived, tempSignatureResponse,
                 tempSignatureResponseReceived, okSig, done, dups>>

\* Start: go VerifyBlock(nt.block), then BlockAnnounce to every child
Start ==
  /\ ~started
  /\ started' = TRUE
  /\ vbTask' = [vbTask EXCEPT ![Root] = "running"]
  /\ net' = net (+) StartSends
  /\ UNCHANGED <<dropped, sendFails, client, parent, valid, block, onDoneCallback, vsTask, tempBlockSig,
                 tempBlockSigReceived, tempSignatureResponse,
                 tempSignatureResponseReceived, loop, okSig, done, dups>>

\* ------------------------------------------------ goroutine VerifyBlock
\* byzcoin.VerifyBlock(block, "", "", nt.verifyBlockChan): the check is over and
\* the goroutine reaches its one send, done <- verified
VerifyBlock(n) ==
  /\ vbTask[n] = "running"
  /\ vbTask' = [vbTask EXCEPT ![n] = "send"]
  /\ UNCHANGED <<dropped, sendFails, client, parent, valid, block, onDoneCallback, started, vsTask, tempBlockSig,
                 tempBlockSigReceived, tempSignatureResponse,
                 tempSignatureResponseReceived, loop, okSig, net, done, dups>>

\* ------------------------------------ goroutine verifySignatureRequest
\* threshold := int(math.Ceil(float64(len(nt.Tree().List())) / 3.0))
Threshold == (N + 2) \div 3

\* len(msg.Exceptions) > threshold
TooManyExceptions(msg, threshold) == Len(msg.Exceptions) > threshold

\* the loop over msg.Sigs: every signature is verified against nt.Public()
GoodSig(n, msg) ==
  Cardinality({i \in 1..Len(msg.Sigs) :
                 VerifySchnorr(n, MarshalBlock(block[n]), msg.Sigs[i])})

\* a slip in the quorum test: < for <=
NotEnoughGoodSigStrict(goodSig, threshold) == goodSig < 2 * threshold

\* goodSig <= 2*threshold
NotEnoughGoodSig(goodSig, threshold) == goodSig <= 2 * threshold

\* where the goroutine stops next once goodSig is counted
AfterCount(goodSig) ==
  IF NotEnoughGoodSig(goodSig, Threshold) THEN "sendGoodSig" ELSE "sendTrue"

\* go nt.verifySignatureRequest(msg)
Spawn(msg) == [pc |-> "running", msg |-> msg, goodSig |-> 0, sent |-> 0]

\* the goroutine runs from its start to its first channel send
verifySignatureRequest(n) ==
  /\ vsTask[n].pc = "running"
  /\ LET t == vsTask[n]
     IN vsTask' = [vsTask EXCEPT ![n] =
          IF TooManyExceptions(t.msg, Threshold)
            THEN [t EXCEPT !.pc = "sendExceptions"]
            ELSE [t EXCEPT !.goodSig = GoodSig(n, t.msg),
                           !.pc = AfterCount(GoodSig(n, t.msg))]]
  /\ UNCHANGED <<dropped, sendFails, client, parent, valid, block, onDoneCallback, started, vbTask, tempBlockSig,
                 tempBlockSigReceived, tempSignatureResponse,
                 tempSignatureResponseReceived, loop, okSig, net, done, dups>>

\* the goroutine is blocked in nt.verifySignatureRequestChan <- v
Sending(t) == t.pc \in {"sendExceptions", "sendGoodSig", "sendTrue"}
\* the value v of that send
SentValue(t) == t.pc = "sendTrue"
\* the goroutine after the send was received: it runs on to its next send or ends
AfterSend(n, t) ==
  IF t.pc = "sendExceptions"
    THEN [t EXCEPT !.goodSig = GoodSig(n, t.msg),
                   !.pc = AfterCount(GoodSig(n, t.msg)),
                   !.sent = t.sent + 1]
  ELSE IF t.pc = "sendGoodSig"
    THEN [t EXCEPT !.pc = "sendTrue", !.sent = t.sent + 1]
    ELSE [t EXCEPT !.pc = "done", !.sent = t.sent + 1]


\* ------------------------------------------------------ the listen loop
At(pc, from, msg) == [pc |-> pc, from |-> from, msg |-> msg]

\* a slip in the round-1 test: <= for <, one bundle more than there are children
WaitingBlockSigOneMore(received, n) == received <= Cardinality(Children(n))

\* variant of WaitingBlockSig: the node goes on one child early
WaitingBlockSigEarly(received, n) == received < Cardinality(Children(n)) - 1

\* variant of WaitingBlockSig: the node does not wait for its other children
WaitingBlockSigNoWait(received, n) == FALSE

\* nt.tempBlockSigReceived < len(nt.Children())
WaitingBlockSig(received, n) == received < Cardinality(Children(n))

\* a slip in the round-2 test: the last child is not waited for
WaitingSignatureResponseEarly(received, n) == received < Cardinality(Children(n)) - 1

\* variant of WaitingSignatureResponse: the node does not wait for its other
\* children
WaitingSignatureResponseNoWait(received, n) == FALSE

\* nt.tempSignatureResponseReceived < len(nt.Children())
WaitingSignatureResponse(received, n) == received < Cardinality(Children(n))

\* variant of OwnBlockSignature: the two branches exchanged
OwnBlockSignatureInverted(bundle, n, ok) ==
  IF ok
    THEN [bundle EXCEPT !.Exceptions = Append(@, Exception(n))]
    ELSE [bundle EXCEPT !.Sigs = Append(@, SignSchnorr(n, MarshalBlock(block[n])))]

\* variant of OwnBlockSignature: the else is missing, a failed verification
\* appends the exception and then the signature too
OwnBlockSignatureNoElse(bundle, n, ok) ==
  LET exc == IF ~ok THEN [bundle EXCEPT !.Exceptions = Append(@, Exception(n))] ELSE bundle
  IN [exc EXCEPT !.Sigs = Append(@, SignSchnorr(n, MarshalBlock(block[n])))]

\* computeBlockSignature after ok was read: an exception or a signature of the block
OwnBlockSignature(bundle, n, ok) ==
  IF ~ok
    THEN [bundle EXCEPT !.Exceptions = Append(@, Exception(n))]
    ELSE [bundle EXCEPT !.Sigs = Append(@, SignSchnorr(n, MarshalBlock(block[n])))]

\* variant of OwnSignatureResponse: the two branches exchanged
OwnSignatureResponseInverted(bundle, n, ok) ==
  IF ok
    THEN [bundle EXCEPT !.Exceptions = Append(@, Exception(n))]
    ELSE [bundle EXCEPT !.Sigs = Append(@, SignSchnorr(n, MarshalHeader(block[n])))]

\* variant of OwnSignatureResponse: the whole block is marshalled, as in round 1
OwnSignatureResponseFullBlock(bundle, n, ok) ==
  IF ~ok
    THEN [bundle EXCEPT !.Exceptions = Append(@, Exception(n))]
    ELSE [bundle EXCEPT !.Sigs = Append(@, SignSchnorr(n, MarshalBlock(block[n])))]

\* computeSignatureResponse after ok was read: an exception or a signature of the header
OwnSignatureResponse(bundle, n, ok) ==
  IF ~ok
    THEN [bundle EXCEPT !.Exceptions = Append(@, Exception(n))]
    ELSE [bundle EXCEPT !.Sigs = Append(@, SignSchnorr(n, MarshalHeader(block[n])))]

\* variant of listenAnnounce: every node, leaf or not, goes to its own block
\* signature and waits there for its verification, the announce is not relayed
listenAnnounceBlocking(n, m) ==
  /\ loop[n].pc = "select"
  /\ BagIn(m, net) /\ m.dst = n /\ m.type = "BlockAnnounce"
  /\ block' = [block EXCEPT ![n] = m.block]
  /\ vbTask' = [vbTask EXCEPT ![n] = "running"]
  /\ loop' = [loop EXCEPT ![n] =
                At("computeBlockSignature", "startBlockSignature", EmptyBundle)]
  /\ net' = net (-) SetToBag({m})
  /\ UNCHANGED <<dropped, sendFails, client, parent, valid, onDoneCallback, started, vsTask, tempBlockSig,
                 tempBlockSigReceived, tempSignatureResponse,
                 tempSignatureResponseReceived, okSig, done, dups>>

\* case msg := <-nt.announceChan
listenAnnounce(n, m) ==
  /\ loop[n].pc = "select"
  /\ BagIn(m, net) /\ m.dst = n /\ m.type = "BlockAnnounce"
  /\ block' = [block EXCEPT ![n] = m.block]
  /\ vbTask' = [vbTask EXCEPT ![n] = "running"]
  /\ IF IsLeaf(n)
       THEN /\ loop' = [loop EXCEPT ![n] =
                          At("computeBlockSignature", "startBlockSignature", EmptyBundle)]
            /\ net' = net (-) SetToBag({m})
       ELSE /\ loop' = loop
            /\ net' = (net (-) SetToBag({m}))
                        (+) SendToChildren(n, "BlockAnnounce", m.block, EmptyBundle)
  /\ UNCHANGED <<dropped, sendFails, client, parent, valid, onDoneCallback, started, vsTask, tempBlockSig,
                 tempBlockSigReceived, tempSignatureResponse,
                 tempSignatureResponseReceived, okSig, done, dups>>

\* case msg := <-nt.blockSignatureChan: handleBlockSignature up to the point where
\* it returns or enters computeBlockSignature
handleBlockSignature(n, m) ==
  /\ loop[n].pc = "select"
  /\ BagIn(m, net) /\ m.dst = n /\ m.type = "NaiveBlockSignature"
  /\ net' = net (-) SetToBag({m})
  /\ tempBlockSig' = [tempBlockSig EXCEPT ![n] = Merge(@, Body(m))]
  /\ tempBlockSigReceived' = [tempBlockSigReceived EXCEPT ![n] = @ + 1]
  /\ loop' = [loop EXCEPT ![n] =
       IF WaitingBlockSig(tempBlockSigReceived[n] + 1, n)
         THEN Idle
         ELSE At("computeBlockSignature", "handleBlockSignature", Body(m))]
  /\ UNCHANGED <<dropped, sendFails, client, parent, valid, block, onDoneCallback, started, vbTask, vsTask,
                 tempSignatureResponse, tempSignatureResponseReceived, okSig,
                 done, dups>>

\* the bundle the root broadcasts: startSignatureRequest(msg) is called with the
\* message handleBlockSignature was called with
SignatureRequestOf(n, msg) == msg

\* computeBlockSignature: ok := <-nt.verifyBlockChan meets the goroutine's send,
\* the own share is appended, and the caller (startBlockSignature or
\* handleBlockSignature) runs to its end
computeBlockSignature(n) ==
  /\ loop[n].pc = "computeBlockSignature"
  /\ vbTask[n] = "send"
  /\ vbTask' = [vbTask EXCEPT ![n] = "done"]
  /\ LET own == OwnBlockSignature(tempBlockSig[n], n, valid[n])
         req == SignatureRequestOf(n, loop[n].msg)
     IN /\ tempBlockSig' = [tempBlockSig EXCEPT ![n] = own]
        /\ IF loop[n].from = "handleBlockSignature" /\ IsRoot(n)
             THEN \* startSignatureRequest(msg)
                  /\ vsTask' = [vsTask EXCEPT ![n] = Spawn(req)]
                  /\ net' = net (+) SendToChildren(n, "RoundSignatureRequest", NoBlock, req)
             ELSE /\ vsTask' = vsTask
                  /\ net' = net (+) SendToParent(n, "NaiveBlockSignature", own)
  /\ loop' = [loop EXCEPT ![n] = Idle]
  /\ UNCHANGED <<dropped, sendFails, client, parent, valid, block, onDoneCallback, started, tempBlockSigReceived,
                 tempSignatureResponse, tempSignatureResponseReceived, okSig,
                 done, dups>>

\* case msg := <-nt.roundSignatureRequestChan
listenRoundSignatureRequest(n, m) ==
  /\ loop[n].pc = "select"
  /\ BagIn(m, net) /\ m.dst = n /\ m.type = "RoundSignatureRequest"
  /\ vsTask' = [vsTask EXCEPT ![n] = Spawn(Body(m))]
  /\ IF IsLeaf(n)
       THEN /\ loop' = [loop EXCEPT ![n] =
                          At("computeSignatureResponse", "startSignatureResponse", EmptyBundle)]
            /\ net' = net (-) SetToBag({m})
       ELSE /\ loop' = loop
            /\ net' = (net (-) SetToBag({m}))
                        (+) SendToChildren(n, "RoundSignatureRequest", NoBlock, Body(m))
  /\ UNCHANGED <<dropped, sendFails, client, parent, valid, block, onDoneCallback, started, vbTask, tempBlockSig,
                 tempBlockSigReceived, tempSignatureResponse,
                 tempSignatureResponseReceived, okSig, done, dups>>

\* case msg := <-nt.roundSignatureResponseChan: handleRoundSignatureResponse up to
\* the point where it returns or enters computeSignatureResponse
handleRoundSignatureResponse(n, m) ==
  /\ loop[n].pc = "select"
  /\ BagIn(m, net) /\ m.dst = n /\ m.type = "RoundSignatureResponse"
  /\ net' = net (-) SetToBag({m})
  /\ tempSignatureResponse' = [tempSignatureResponse EXCEPT ![n] = Merge(@, Body(m))]
  /\ tempSignatureResponseReceived' = [tempSignatureResponseReceived EXCEPT ![n] = @ + 1]
  /\ loop' = [loop EXCEPT ![n] =
       IF WaitingSignatureResponse(tempSignatureResponseReceived[n] + 1, n)
         THEN Idle
         ELSE At("computeSignatureResponse", "handleRoundSignatureResponse", Body(m))]
  /\ UNCHANGED <<dropped, sendFails, client, parent, valid, block, onDoneCallback, started, vbTask, vsTask,
                 tempBlockSig, tempBlockSigReceived, okSig, done, dups>>

\* variant of ResponseSentUp: the merged bundle of the node is sent
ResponseSentUpMerged(n, msg, own) == own

\* what a node that is not the root sends up at the end of
\* handleRoundSignatureResponse: nt.SendTo(nt.Parent(), msg)
ResponseSentUp(n, msg, own) == msg

\* nt.onDoneCallback(&NtreeSignature{nt.block, nt.tempSignatureResponse})
NtreeSignature(n, bundle) ==
  [node |-> n, Block |-> block[n], Sigs |-> bundle.Sigs, Exceptions |-> bundle.Exceptions]

\* computeSignatureResponse: ok := <-nt.verifySignatureRequestChan meets a send of
\* the goroutine, the own share is appended, and the caller (startSignatureResponse
\* or handleRoundSignatureResponse) runs to its end
computeSignatureResponse(n) ==
  /\ loop[n].pc = "computeSignatureResponse"
  /\ Sending(vsTask[n])
  /\ vsTask' = [vsTask EXCEPT ![n] = AfterSend(n, @)]
  /\ okSig' = [okSig EXCEPT ![n] = IF SentValue(vsTask[n]) THEN "true" ELSE "false"]
  /\ LET own == OwnSignatureResponse(tempSignatureResponse[n], n, SentValue(vsTask[n]))
     IN /\ tempSignatureResponse' = [tempSignatureResponse EXCEPT ![n] = own]
        /\ IF loop[n].from = "handleRoundSignatureResponse" /\ IsRoot(n)
             THEN /\ done' = IF onDoneCallback
                               THEN Append(done, NtreeSignature(n, own))
                               ELSE done
                  /\ net' = net
             ELSE /\ done' = done
                  /\ net' = net (+) SendToParent(n, "RoundSignatureResponse",
                       IF loop[n].from = "startSignatureResponse"
                         THEN own
                         ELSE ResponseSentUp(n, loop[n].msg, own))
  /\ loop' = [loop EXCEPT ![n] = Idle]
  /\ UNCHANGED <<dropped, sendFails, client, parent, valid, block, onDoneCallback, started, vbTask, tempBlockSig,
                 tempBlockSigReceived, tempSignatureResponseReceived, dups>>

\* ------------------------------------------------------- specifications
Next ==
  \/ RegisterOnDone
  \/ Start
  \/ \E n \in Nodes : VerifyBlock(n)
  \/ \E n \in Nodes : verifySignatureRequest(n)
  \/ \E n \in Nodes : \E m \in BagToSet(net) : listenAnnounce(n, m)
  \/ \E n \in Nodes : \E m \in BagToSet(net) : handleBlockSignature(n, m)
  \/ \E n \in Nodes : computeBlockSignature(n)
  \/ \E n \in Nodes : \E m \in BagToSet(net) : listenRoundSignatureRequest(n, m)
  \/ \E n \in Nodes : \E m \in BagToSet(net) : handleRoundSignatureResponse(n, m)
  \/ \E n \in Nodes : computeSignatureResponse(n)

Spec == Init /\ [][Next]_vars


\* ------------------------------------------- fair scheduling (liveness)
\* one step of the listen goroutine of node n
Loop(n) ==
  /\ n \in Nodes
  /\ \/ \E m \in BagToSet(net) : listenAnnounce(n, m)
     \/ \E m \in BagToSet(net) : handleBlockSignature(n, m)
     \/ computeBlockSignature(n)
     \/ \E m \in BagToSet(net) : listenRoundSignatureRequest(n, m)
     \/ \E m \in BagToSet(net) : handleRoundSignatureResponse(n, m)
     \/ computeSignatureResponse(n)

\* the Go scheduler runs every runnable goroutine: each listen loop and each
\* verification goroutine; the driver calls Start
Fairness ==
  /\ WF_vars(Start)
  /\ \A n \in 1..MaxN :
       /\ WF_vars(Loop(n))
       /\ WF_vars(n \in Nodes /\ VerifyBlock(n))
       /\ WF_vars(n \in Nodes /\ verifySignatureRequest(n))

SpecLive == Init /\ [][Next]_vars /\ Fairness

\* the listen loops and the driver are scheduled, the verification goroutines
\* may take any time, or never finish
FairnessLoops ==
  /\ WF_vars(Start)
  /\ \A n \in 1..MaxN : WF_vars(Loop(n))

SpecFanOut == Init /\ [][Next]_vars /\ FairnessLoops

\* ----------------------------------- an overlay that delivers twice
\* the overlay hands one bundle that is in flight to its receiver a second time
Duplicate(m) ==
  /\ dups < MaxDup
  /\ BagIn(m, net)
  /\ m.type \in {"NaiveBlockSignature", "RoundSignatureResponse"}
  /\ net' = net (+) SetToBag({m})
  /\ dups' = dups + 1
  /\ UNCHANGED <<dropped, sendFails, client, parent, valid, block, onDoneCallback, started, vbTask, vsTask,
                 tempBlockSig, tempBlockSigReceived, tempSignatureResponse,
                 tempSignatureResponseReceived, loop, okSig, done>>

NextDup ==
  \/ Next
  \/ \E m \in BagToSet(net) : Duplicate(m)

SpecDup == Init /\ [][NextDup]_vars


\* --------------------------------------- an overlay that loses a message
\* the overlay loses one message that is in flight; nothing is sent again
Drop(m) ==
  /\ dropped = {}
  /\ BagIn(m, net)
  /\ net' = net (-) SetToBag({m})
  /\ dropped' = {m}
  /\ UNCHANGED <<sendFails, client, parent, valid, block, onDoneCallback, started,
                 vbTask, vsTask, tempBlockSig, tempBlockSigReceived,
                 tempSignatureResponse, tempSignatureResponseReceived, loop, okSig,
                 done, dups>>

NextDrop ==
  \/ Next
  \/ \E m \in BagToSet(net) : Drop(m)

SpecDrop == Init /\ [][NextDrop]_vars

\* ----------------------- round 2 on a SignatureRequest drawn as an input
Min(S) == CHOOSE x \in S : \A y \in S : x <= y
Max(S) == CHOOSE x \in S : \A y \in S : y <= x

RECURSIVE SubtreeBundle(_), MergeChildren(_, _)
\* nt.tempBlockSig of node n at the end of round 1, its children having reported
\* in the order of their numbers
SubtreeBundle(n) == OwnBlockSignature(MergeChildren(EmptyBundle, Children(n)), n, valid[n])
MergeChildren(bundle, cs) ==
  IF cs = {} THEN bundle
  ELSE MergeChildren(Merge(bundle, SubtreeBundle(Min(cs))), cs \ {Min(cs)})

\* the signatures a request may hold, numbered: signature p <= N is by participant
\* p over the encoding of the block, signature N + 1 is over the encoding of the
\* header (it verifies against the block under no key)
SigNumbered(i, b) ==
  IF i <= N THEN SignSchnorr(i, MarshalBlock(b)) ELSE SignSchnorr(Root, MarshalHeader(b))

\* the lists of signatures drawn: of length at most MaxSigs, one list per content
\* (the order of the list does not enter verifySignatureRequest)
SigLists(b) ==
  UNION {{[i \in 1..k |-> SigNumbered(s[i], b)] :
            s \in {t \in [1..k -> 1..(N + 1)] : \A i \in 1..(k - 1) : t[i] <= t[i + 1]}} :
         k \in 0..MaxSigs}

\* the lists of exceptions drawn: one list of each length up to MaxExc (only
\* len(msg.Exceptions) enters verifySignatureRequest)
ExcLists == {[i \in 1..k |-> Exception(((i - 1) % N) + 1)] : k \in 0..MaxExc}

\* the state at the end of startSignatureRequest, for a request that is an input:
\* round 1 is over at every node, the root has started its verification and sent
\* the request to its children
InitVerify ==
  /\ \E k \in 2..MaxN : parent \in Trees(k)
  /\ valid = [n \in Nodes |-> TRUE]
  /\ block = [n \in Nodes |-> CHOOSE b \in Blocks : TRUE]
  /\ onDoneCallback = TRUE
  /\ started = TRUE
  /\ vbTask = [n \in Nodes |-> "done"]
  /\ tempBlockSig = [n \in Nodes |-> SubtreeBundle(n)]
  /\ tempBlockSigReceived = [n \in Nodes |-> Cardinality(Children(n))]
  /\ tempSignatureResponse = [n \in Nodes |-> EmptyBundle]
  /\ tempSignatureResponseReceived = [n \in Nodes |-> 0]
  /\ loop = [n \in Nodes |-> Idle]
  /\ okSig = [n \in Nodes |-> "none"]
  /\ done = <<>>
  /\ dups = 0
  /\ client = NoClient
  /\ sendFails = {}
  /\ dropped = {}
  /\ \E s \in SigLists(block[Root]), e \in ExcLists :
       LET req == [Sigs |-> s, Exceptions |-> e]
       IN /\ vsTask = [n \in Nodes |-> IF n = Root THEN Spawn(req) ELSE NoTask]
          /\ net = SendToChildren(Root, "RoundSignatureRequest", NoBlock, req)

NextVerify ==
  \/ \E n \in Nodes : verifySignatureRequest(n)
  \/ \E n \in Nodes : \E m \in BagToSet(net) : listenRoundSignatureRequest(n, m)
  \/ \E n \in Nodes : \E m \in BagToSet(net) : handleRoundSignatureResponse(n, m)
  \/ \E n \in Nodes : computeSignatureResponse(n)

SpecVerify == InitVerify /\ [][NextVerify]_vars

\* round 2 on an input request, under the fair scheduling of the goroutines
SpecVerifyLive == InitVerify /\ [][NextVerify]_vars /\ Fairness


\* the runs from Start together with round 2 on every input request
SpecRounds == (Init \/ InitVerify) /\ [][Next]_vars

\* round 2 on a request made of round-1 signatures only, repeated or not
InitReplay ==
  /\ InitVerify
  /\ \A i \in DOMAIN vsTask[Root].msg.Sigs :
       vsTask[Root].msg.Sigs[i].payload = MarshalBlock(block[Root])

\* the runs from Start together with round 2 on the requests of InitReplay
SpecReplay == (Init \/ InitReplay) /\ [][Next]_vars

\* the runs from Start in which one send of a fan-out returns an error: the
\* Announce or the SignatureRequest to one child
InitSendFail ==
  /\ \E k \in 2..MaxN : parent \in Trees(k)
  /\ valid \in [Nodes -> BOOLEAN]
  /\ block = [n \in Nodes |-> IF n = Root THEN CHOOSE b \in Blocks : TRUE ELSE NoBlock]
  /\ net = EmptyBag
  /\ client = NoClient
  /\ \E c \in Nodes \ {Root}, type \in {"BlockAnnounce", "RoundSignatureRequest"} :
       sendFails = {<<c, type>>}
  /\ dropped = {}
  /\ InitNodes

SpecSendFail == InitSendFail /\ [][Next]_vars

\* ------------------------------------ the balanced binary tree of 7 nodes
\* root 1, inner nodes 2 and 3, leaves 4..7
BinaryTree7 == <<0, 1, 1, 2, 2, 3, 3>>

\* the run on that tree, the callback registered, before Start
Init7 ==
  /\ parent = BinaryTree7
  /\ block = [n \in Nodes |-> IF n = Root THEN CHOOSE b \in Blocks : TRUE ELSE NoBlock]
  /\ net = EmptyBag
  /\ onDoneCallback = TRUE
  /\ started = FALSE
  /\ vbTask = [n \in Nodes |-> "none"]
  /\ vsTask = [n \in Nodes |-> NoTask]
  /\ tempBlockSig = [n \in Nodes |-> EmptyBundle]
  /\ tempBlockSigReceived = [n \in Nodes |-> 0]
  /\ tempSignatureResponse = [n \in Nodes |-> EmptyBundle]
  /\ tempSignatureResponseReceived = [n \in Nodes |-> 0]
  /\ loop = [n \in Nodes |-> Idle]
  /\ okSig = [n \in Nodes |-> "none"]
  /\ done = <<>>
  /\ dups = 0
  /\ client = NoClient
  /\ sendFails = {}
  /\ dropped = {}

\* every block verification succeeds
Init7Honest == Init7 /\ valid = [n \in 1..7 |-> TRUE]

\* exactly two leaves find the block invalid
Init7TwoInvalid ==
  /\ Init7
  /\ \E bad \in SUBSET (4..7) :
       Cardinality(bad) = 2 /\ valid = [n \in 1..7 |-> n \notin bad]

Next7 ==
  \/ Start
  \/ \E n \in Nodes : VerifyBlock(n)
  \/ \E n \in Nodes : verifySignatureRequest(n)
  \/ \E n \in Nodes : \E m \in BagToSet(net) : listenAnnounce(n, m)
  \/ \E n \in Nodes : \E m \in BagToSet(net) : handleBlockSignature(n, m)
  \/ \E n \in Nodes : computeBlockSignature(n)
  \/ \E n \in Nodes : \E m \in BagToSet(net) : listenRoundSignatureRequest(n, m)
  \/ \E n \in Nodes : \E m \in BagToSet(net) : handleRoundSignatureResponse(n, m)
  \/ \E n \in Nodes : computeSignatureResponse(n)

\* a goroutine that can take a step is scheduled: the run does not stop while
\* some goroutine of the 7 nodes is runnable
Fairness7 == WF_vars(Next7)

Spec7Honest == Init7Honest /\ [][Next7]_vars
Spec7TwoInvalid == Init7TwoInvalid /\ [][Next7]_vars /\ Fairness7


\* ---------------------------------------------- the client simulation
\* the client and its block server, no protocol instance running
InitClient ==
  /\ parent = <<0>>
  /\ valid = [n \in Nodes |-> TRUE]
  /\ block = [n \in Nodes |-> NoBlock]
  /\ net = EmptyBag
  /\ InitNodes
  /\ \E nTxs \in 0..MaxTxs, T \in 0..MaxParsed, parseErr \in BOOLEAN :
       client = NewClient(nTxs, [i \in 1..T |-> i], parseErr)
  /\ sendFails = {}
  /\ dropped = {}

\* triggerTransactions up to its loop: the two early returns, then consumed
triggerTransactions ==
  /\ client.pc = "start"
  /\ client' =
       IF Len(client.transactions) = 0
         THEN [client EXCEPT !.pc = "returned", !.result = "error"]
       ELSE IF client.err
         THEN [client EXCEPT !.pc = "returned", !.result = "error"]
       ELSE [client EXCEPT !.pc = "loop",
                           !.consumed = IF Len(client.transactions) < client.nTxs
                                          THEN Len(client.transactions)
                                          ELSE client.nTxs]
  /\ UNCHANGED <<parent, valid, block, onDoneCallback, started, vbTask, vsTask,
                 tempBlockSig, tempBlockSigReceived, tempSignatureResponse,
                 tempSignatureResponseReceived, loop, okSig, net, done, dups,
                 sendFails, dropped>>

\* c.srv.AddTransaction(tr) for the next tr of range transactions; consumed--
\* after the last one
AddTransaction ==
  /\ client.pc = "loop"
  /\ client.consumed > 0
  /\ client' =
       [client EXCEPT
          !.added = Append(@, client.transactions[client.next]),
          !.next = IF client.next = Len(client.transactions) THEN 1 ELSE @ + 1,
          !.consumed = IF client.next = Len(client.transactions) THEN @ - 1 ELSE @]
  /\ UNCHANGED <<parent, valid, block, onDoneCallback, started, vbTask, vsTask,
                 tempBlockSig, tempBlockSigReceived, tempSignatureResponse,
                 tempSignatureResponseReceived, loop, okSig, net, done, dups,
                 sendFails, dropped>>

\* for consumed > 0 is left: return nil
triggerTransactionsReturn ==
  /\ client.pc = "loop"
  /\ client.consumed = 0
  /\ client' = [client EXCEPT !.pc = "returned", !.result = "nil"]
  /\ UNCHANGED <<parent, valid, block, onDoneCallback, started, vbTask, vsTask,
                 tempBlockSig, tempBlockSigReceived, tempSignatureResponse,
                 tempSignatureResponseReceived, loop, okSig, net, done, dups,
                 sendFails, dropped>>

NextClient ==
  \/ triggerTransactions
  \/ AddTransaction
  \/ triggerTransactionsReturn

SpecClient == InitClient /\ [][NextClient]_vars


\* ================================================================ claims
\* the contributions of participant p in a bundle
Count(p, bundle) ==
  Cardinality({i \in 1..Len(bundle.Sigs) : bundle.Sigs[i].signer = p})
  + Cardinality({i \in 1..Len(bundle.Exceptions) : bundle.Exceptions[i].ID = p})

\* a bundle that holds exactly one contribution of each participant
OneFromEach(bundle) == Size(bundle) = N /\ \A p \in Nodes : Count(p, bundle) = 1

Range(f) == {f[i] : i \in DOMAIN f}
\* the content of a bundle, the order of its lists left out
Contributions(bundle) == <<Range(bundle.Sigs), Range(bundle.Exceptions)>>

\* C1: the bundle handed to the completion callback holds exactly N
\* contributions, exactly one of each participant (N >= 2, exactly-once delivery)
C1_FinalBundleOneFromEach ==
  \A i \in 1..Len(done) : N >= 2 => OneFromEach(done[i])

\* C2: the SignatureRequest the root broadcasts is the root's merged phase-1
\* bundle: one contribution of every participant, the root's own included
C2_RequestIsMergedBundle ==
  \A m \in BagToSet(net) :
    m.type = "RoundSignatureRequest" /\ m.src = Root
      => /\ OneFromEach(Body(m))
         /\ Contributions(Body(m)) = Contributions(tempBlockSig[Root])

\* C4: the callback is invoked at most once, only at the root, only after the
\* root received a phase-2 bundle of every child and appended its own share, and
\* with the block the root announced
C4_CallbackOnceAtRootAfterAll ==
  /\ Len(done) <= 1
  /\ \A i \in 1..Len(done) :
       /\ IsRoot(done[i].node)
       /\ tempSignatureResponseReceived[Root] = Cardinality(Children(Root))
       /\ \A c \in Children(Root) :
            /\ okSig[c] # "none"
            /\ \A m \in BagToSet(net) :
                 ~(m.type = "RoundSignatureResponse" /\ m.src = c)
       /\ Count(Root, done[i]) = 1
       /\ Body(done[i]) = tempSignatureResponse[Root]
       /\ done[i].Block = block[Root]
       /\ \A n \in Nodes : block[n] = done[i].Block

\* C4 witness: the callback has run in a tree whose root has two children
C4_Witness == Len(done) = 1 /\ Cardinality(Children(Root)) = 2

\* C7: a verification goroutine sends one boolean and ends: none is at a send
\* after its result was received, none sends a second time
C7_OneSendPerTask ==
  \A n \in Nodes :
    /\ ~(Sending(vsTask[n]) /\ vsTask[n].sent >= 1)
    /\ vsTask[n].sent <= 1

\* the signatures of a request that some participant of the tree validly made
\* over the encoding of the block
ValidSigs(n, msg) ==
  {i \in 1..Len(msg.Sigs) :
     \E p \in Nodes : VerifySchnorr(p, MarshalBlock(block[n]), msg.Sigs[i])}

\* the goroutine of n has counted goodSig
Counted(t) == t.pc \in {"sendGoodSig", "sendTrue", "done"}

\* C8: goodSig, as a node counts it, is the number of signatures of the request
\* validly made by any participant over the encoding of the block
C8_GoodSigCountsAllSigners ==
  \A n \in Nodes :
    Counted(vsTask[n]) => vsTask[n].goodSig = Cardinality(ValidSigs(n, vsTask[n].msg))


\* a phase-1 bundle of N contributions, one of each participant, of which at most
\* f are exceptions and the others signatures that verify
FullBundleWithinF(n, msg) ==
  /\ OneFromEach(msg)
  /\ Len(msg.Exceptions) <= Threshold
  /\ ValidSigs(n, msg) = 1..Len(msg.Sigs)

\* C3: a phase-1 bundle of N contributions with at most f = ceil(N/3) exceptions
\* and valid signatures otherwise is accepted by the threshold check
C3_AcceptsUpToFExceptions ==
  \A n \in Nodes :
    okSig[n] # "none" /\ FullBundleWithinF(n, vsTask[n].msg) => okSig[n] = "true"

\* C5: once the run is started with a callback registered, in a tree of N >= 2,
\* the callback is eventually invoked, whatever the verification outcomes
C5_EventuallyDone ==
  (started /\ onDoneCallback /\ N >= 2) ~> (Len(done) >= 1)

\* C5 witness: the callback has run although a block was rejected and a quorum
\* check failed
C5_Witness ==
  /\ Len(done) >= 1 /\ N >= 2
  /\ \E n \in Nodes : ~valid[n]
  /\ \E n \in Nodes : okSig[n] = "false"

\* C6: the boolean a node's phase-2 step consumes is true exactly when the request
\* holds at most f exceptions and goodSig > 2f
C6_ConsumedVerdict ==
  \A n \in Nodes :
    okSig[n] # "none" =>
      ((okSig[n] = "true") <=>
         (/\ Len(vsTask[n].msg.Exceptions) <= Threshold
          /\ vsTask[n].goodSig > 2 * Threshold))

\* C6 witness: a node has consumed true, just above the edge goodSig = 2f
C6_Witness ==
  \E n \in Nodes : okSig[n] = "true" /\ vsTask[n].goodSig = 2 * Threshold + 1

\* C9: a phase-contribution step invoked a second time leaves exactly one own
\* contribution in the bundle and does not wait for a verification result again
C9_OwnShareIdempotent ==
  \A n \in Nodes :
    /\ Count(n, tempBlockSig[n]) <= 1
    /\ Count(n, tempSignatureResponse[n]) <= 1
    /\ ~(loop[n].pc = "computeBlockSignature" /\ Count(n, tempBlockSig[n]) >= 1)
    /\ ~(loop[n].pc = "computeSignatureResponse" /\ Count(n, tempSignatureResponse[n]) >= 1)

\* the run in which every node takes the bundles of its children in the order of
\* their numbers: the first boolean of verifySignatureRequest, the request of the
\* root, what each node sends up in round 2, and the final bundle
RefVerdict(n, req) ==
  ~TooManyExceptions(req, Threshold) /\ ~NotEnoughGoodSig(GoodSig(n, req), Threshold)
RefRequest == SignatureRequestOf(Root, SubtreeBundle(Max(Children(Root))))
RECURSIVE RefResponse(_), RefMergeResponses(_, _)
RefOwn(n) ==
  OwnSignatureResponse(RefMergeResponses(EmptyBundle, Children(n)), n,
                       RefVerdict(n, RefRequest))
RefResponse(n) ==
  IF IsLeaf(n) THEN RefOwn(n)
  ELSE ResponseSentUp(n, RefResponse(Max(Children(n))), RefOwn(n))
RefMergeResponses(bundle, cs) ==
  IF cs = {} THEN bundle
  ELSE RefMergeResponses(Merge(bundle, RefResponse(Min(cs))), cs \ {Min(cs)})

\* C10 (phase-1 bundle): the root's phase-1 bundle has the same content for every
\* order of delivery
C10_Phase1Same ==
  N >= 2 /\ vsTask[Root].pc # "none"
    => Contributions(tempBlockSig[Root]) = Contributions(SubtreeBundle(Root))
\* C10 (request): so has the SignatureRequest
C10_RequestSame ==
  \A m \in BagToSet(net) :
    m.type = "RoundSignatureRequest"
      => Contributions(Body(m)) = Contributions(RefRequest)
\* C10 (final bundle): so has the final bundle
C10_FinalSame ==
  \A i \in 1..Len(done) :
    N >= 2 => Contributions(Body(done[i])) = Contributions(RefOwn(Root))

\* C10: for a fixed tree and fixed verification outcomes, the content of the
\* root's phase-1 bundle, of the SignatureRequest and of the final bundle is that
\* of the run in which siblings report in the order of their numbers, whatever
\* the order of delivery
C10_OrderIndependent == C10_Phase1Same /\ C10_RequestSame /\ C10_FinalSame

\* C11: on the balanced binary tree of 7 nodes with every block verification
\* succeeding, the root's phase-1 bundle and the bundle handed to the callback
\* each hold 7 signatures and no exception, and the callback runs at most once,
\* at the root, with the announced block
C11_SevenHonestSignatures ==
  /\ Len(done) <= 1
  /\ vsTask[Root].pc # "none" =>
       /\ Len(tempBlockSig[Root].Sigs) = 7
       /\ Len(tempBlockSig[Root].Exceptions) = 0
  /\ \A i \in 1..Len(done) :
       /\ done[i].node = Root
       /\ done[i].Block = block[Root]
       /\ Len(done[i].Sigs) = 7
       /\ Len(done[i].Exceptions) = 0

\* the state part of C12
C12_CascadeState ==
  /\ vsTask[Root].pc # "none" =>
       /\ Len(tempBlockSig[Root].Sigs) = 5
       /\ Len(tempBlockSig[Root].Exceptions) = 2
  /\ \A n \in Nodes :
       /\ okSig[n] # "true"
       /\ okSig[n] = "false" =>
            /\ Count(n, tempSignatureResponse[n]) = 1
            /\ \E i \in 1..Len(tempSignatureResponse[n].Exceptions) :
                 tempSignatureResponse[n].Exceptions[i] = Exception(n)
  /\ Len(done) >= 1 => \A n \in Nodes : okSig[n] = "false"

\* C12: on the balanced binary tree of 7 nodes with exactly two leaves finding
\* the block invalid, the root's phase-1 bundle holds 5 signatures and 2
\* exceptions, the verdict consumed from the bundle verification is false at every
\* node, every node appends an Exception of its own in phase 2, and the callback
\* is eventually invoked
C12_NonAbortingCascade == [](C12_CascadeState) /\ <>(Len(done) = 1)

\* C12 witness: the callback has run after all 7 nodes consumed a false verdict
\* with two of the leaves having found the block invalid
C12_Witness ==
  /\ N = 7
  /\ Cardinality({n \in 4..7 : ~valid[n]}) = 2
  /\ Len(done) = 1
  /\ \A n \in Nodes : okSig[n] = "false"
  /\ Len(tempBlockSig[Root].Exceptions) = 2

\* the participants of the subtree rooted at n
RECURSIVE Subtree(_)
Subtree(n) == {n} \cup UNION {Subtree(c) : c \in Children(n)}

\* at most one contribution per participant, and no more than the subtree of n has
WithinSubtree(bundle, n) ==
  /\ \A p \in Nodes : Count(p, bundle) <= 1
  /\ Size(bundle) <= Cardinality(Subtree(n))

\* C13: each node's phase-1 bundle and phase-2 bundle hold at most one
\* contribution per participant and no more contributions than the node's subtree
\* has participants, and so does every phase-1 or phase-2 bundle message in flight
\* with respect to the subtree of its sender
C13_BundleInvariant ==
  /\ \A n \in Nodes :
       /\ WithinSubtree(tempBlockSig[n], n)
       /\ WithinSubtree(tempSignatureResponse[n], n)
  /\ \A m \in BagToSet(net) :
       m.type \in {"NaiveBlockSignature", "RoundSignatureResponse"} =>
         WithinSubtree(Body(m), m.src)

\* C13 witness: an internal node's phase-2 bundle message is in flight, its own
\* phase-2 bundle holds two contributions and the root's phase-1 bundle is full
C13_Witness ==
  \E m \in BagToSet(net) :
     /\ m.type = "RoundSignatureResponse"
     /\ ~IsLeaf(m.src)
     /\ Size(tempSignatureResponse[m.src]) >= 2
     /\ Size(tempBlockSig[Root]) = N

\* C14: when StartClientSimulation has returned, then with T > 0 transactions
\* parsed without error AddTransaction was called exactly min(numTxs, T) times,
\* and with T = 0 an error was returned and AddTransaction was never called
C14_SubmitsMinTransactions ==
  client.pc = "returned" =>
    LET T == Len(client.transactions)
    IN /\ (T > 0 /\ ~client.err) =>
            /\ client.result = "nil"
            /\ Len(client.added) = Min({client.nTxs, T})
       /\ T = 0 => client.result = "error" /\ Len(client.added) = 0

\* the phase-1 bundle messages of n in flight
InFlightBlockSig(n) == {m \in BagToSet(net) : m.type = "NaiveBlockSignature" /\ m.src = n}

\* the number of phase-1 bundles n has sent so far: those in flight and the one
\* its parent merged (exact up to 1, at least 2 beyond)
SentBlockSig(n) ==
  (IF InFlightBlockSig(n) = {} THEN 0
     ELSE CopiesIn(CHOOSE m \in InFlightBlockSig(n) : TRUE, net)
          + (Cardinality(InFlightBlockSig(n)) - 1))
  + Count(n, tempBlockSig[parent[n]])

\* exactly one contribution of each participant of the subtree of n
OneFromEachOfSubtree(bundle, n) ==
  /\ Size(bundle) = Cardinality(Subtree(n))
  /\ \A p \in Subtree(n) : Count(p, bundle) = 1

\* C15: a non-leaf node that has not received a phase-1 bundle of every child has
\* sent nothing to its parent, and the root has started no SignatureRequest; a
\* node sends at most one phase-1 bundle, every phase-1 bundle sent holds exactly
\* one contribution of each participant of the sender's subtree, and the root's
\* phase-1 bundle holds exactly N contributions, one of each participant, once the
\* root has started the SignatureRequest
C15_Phase1FanIn ==
  /\ \A n \in Nodes :
       (~IsLeaf(n) /\ tempBlockSigReceived[n] < Cardinality(Children(n))) =>
         IF IsRoot(n)
           THEN /\ vsTask[n].pc = "none"
                /\ \A m \in BagToSet(net) : m.type # "RoundSignatureRequest"
           ELSE SentBlockSig(n) = 0
  /\ \A n \in Nodes : ~IsRoot(n) =>
       /\ SentBlockSig(n) <= 1
       /\ \A m \in InFlightBlockSig(n) : OneFromEachOfSubtree(Body(m), n)
  /\ vsTask[Root].pc # "none" => OneFromEach(tempBlockSig[Root])

\* C15 witness: the root has started the SignatureRequest after it merged the
\* phase-1 bundle of an internal node
C15_Witness ==
  /\ vsTask[Root].pc # "none"
  /\ \E n \in Nodes : ~IsLeaf(n) /\ ~IsRoot(n) /\ Count(n, tempBlockSig[Root]) = 1

\* C16: the phase-2 bundle message a non-root internal node has sent to its
\* parent is the node's merged phase-2 bundle: it holds the node's own phase-2
\* contribution and every contribution the node received of its children
C16_Phase2SendsMerged ==
  \A m \in BagToSet(net) :
    (m.type = "RoundSignatureResponse" /\ ~IsLeaf(m.src) /\ ~IsRoot(m.src)) =>
      /\ tempSignatureResponseReceived[m.src] = Cardinality(Children(m.src))
      /\ Count(m.src, Body(m)) = 1
      /\ Contributions(Body(m)) = Contributions(tempSignatureResponse[m.src])

\* round 2 has begun somewhere: a SignatureRequest was sent, a bundle
\* verification was started, or a phase-2 contribution was made or sent
RoundTwoBegun ==
  \/ \E m \in BagToSet(net) : m.type \in {"RoundSignatureRequest", "RoundSignatureResponse"}
  \/ \E n \in Nodes :
       \/ vsTask[n].pc # "none"
       \/ okSig[n] # "none"
       \/ Size(tempSignatureResponse[n]) > 0
       \/ loop[n].pc = "computeSignatureResponse"

\* round 1 is complete: every participant has appended its own phase-1
\* contribution and the root has merged the phase-1 bundle of every child
RoundOneComplete ==
  /\ \A p \in Nodes : Count(p, tempBlockSig[p]) = 1
  /\ tempBlockSigReceived[Root] = Cardinality(Children(Root))
  /\ \A m \in BagToSet(net) : m.type # "NaiveBlockSignature"
  /\ \A c \in Children(Root) : Count(c, tempBlockSig[Root]) = 1

\* C17: no SignatureRequest is sent, no bundle verification is started and no
\* phase-2 contribution is made before all N participants made their phase-1
\* contribution and the root merged the phase-1 bundles of all its children
C17_RoundOrdering == RoundTwoBegun => RoundOneComplete

\* C17 witness: a leaf below an internal node has made its phase-2 contribution
C17_Witness ==
  \E n \in Nodes : IsLeaf(n) /\ ~IsRoot(n) /\ ~IsRoot(parent[n]) /\ okSig[n] # "none"

\* m of the given type is in flight to c
InFlightTo(c, type, bag) ==
  \E m \in BagToSet(bag) : m.type = type /\ m.dst = c

\* a step in which a non-leaf node takes an Announce (a SignatureRequest) sends
\* it to every child, leaves the verification it started unconsumed and leaves
\* the listen loop at its select
C18_RelayStep ==
  \A n \in Nodes :
    /\ (~IsLeaf(n) /\ block[n] = NoBlock /\ block'[n] # NoBlock) =>
         /\ vbTask'[n] = "running"
         /\ loop'[n] = Idle
         /\ \A c \in Children(n) : InFlightTo(c, "BlockAnnounce", net')
    /\ (~IsLeaf(n) /\ vsTask[n].pc = "none" /\ vsTask'[n].pc # "none") =>
         /\ vsTask'[n].pc = "running"
         /\ loop'[n] = Idle
         /\ \A c \in Children(n) : InFlightTo(c, "RoundSignatureRequest", net')

\* every participant has received the Announce
AllAnnounced == \A n \in Nodes : block[n] # NoBlock

\* C18: a non-leaf node relays Announce and SignatureRequest to every child
\* without consuming its own verification result, and once the root has started
\* every participant eventually receives the Announce, whether or not any block
\* verification ever completes
C18_FanOutDoesNotWait == [][C18_RelayStep]_vars /\ (started ~> AllAnnounced)

\* C18 witness: every participant of a tree with an internal non-root node has
\* received the Announce and no block verification has completed
C18_Witness ==
  /\ AllAnnounced
  /\ \A n \in Nodes : vbTask[n] = "running"
  /\ \E n \in Nodes : ~IsLeaf(n) /\ ~IsRoot(n)

\* the own contribution of n in a bundle: none before the verdict was consumed,
\* then exactly one, a signature of the payload if the verdict was true and an
\* Exception with the id of n if not
OwnContribution(n, bundle, consumed, ok, payload) ==
  LET sigs == {i \in DOMAIN bundle.Sigs : bundle.Sigs[i].signer = n}
      excs == {i \in DOMAIN bundle.Exceptions : bundle.Exceptions[i] = Exception(n)}
  IN IF ~consumed THEN sigs = {} /\ excs = {}
     ELSE IF ok
       THEN /\ Cardinality(sigs) = 1 /\ excs = {}
            /\ \A i \in sigs : bundle.Sigs[i] = SignSchnorr(n, payload)
       ELSE sigs = {} /\ Cardinality(excs) = 1

SignedOver(bundle, payload) ==
  \A i \in DOMAIN bundle.Sigs : bundle.Sigs[i].payload = payload

\* the signature values held in phase-1 bundles and SignatureRequests
RoundOneSigs ==
  UNION ({Range(tempBlockSig[n].Sigs) : n \in Nodes}
         \cup {Range(vsTask[n].msg.Sigs) : n \in Nodes}
         \cup {Range(m.Sigs) : m \in {x \in BagToSet(net) :
                 x.type \in {"NaiveBlockSignature", "RoundSignatureRequest"}}})

\* the signature values held in phase-2 bundles, the final bundle included
RoundTwoSigs ==
  UNION ({Range(tempSignatureResponse[n].Sigs) : n \in Nodes}
         \cup {Range(done[i].Sigs) : i \in DOMAIN done}
         \cup {Range(m.Sigs) : m \in {x \in BagToSet(net) :
                 x.type = "RoundSignatureResponse"}})

\* C20: every signature held in a phase-1 bundle or a SignatureRequest is over
\* the full-block encoding, every signature held in a phase-2 bundle is over the
\* header-only encoding, and no signature value of round 1 is in a phase-2 bundle
C20_DomainSeparation ==
  LET b == block[Root]
  IN /\ \A s \in RoundOneSigs : s.payload = MarshalBlock(b)
     /\ \A s \in RoundTwoSigs : s.payload = MarshalHeader(b)
     /\ RoundOneSigs \cap RoundTwoSigs = {}

\* C20 witness: the final bundle holds a phase-2 signature of the root, whose
\* phase-1 signature is in the root's phase-1 bundle
C20_Witness ==
  /\ Len(done) = 1
  /\ \E i \in DOMAIN done[1].Sigs : done[1].Sigs[i].signer = Root
  /\ \E i \in DOMAIN tempBlockSig[Root].Sigs : tempBlockSig[Root].Sigs[i].signer = Root

\* C21: a bundle delivered a second time by the overlay is rejected: no node
\* counts more bundles than it has children, no bundle holds the contribution of
\* another participant twice, and the callback is not invoked a second time
C21_DuplicateRejected ==
  /\ \A n \in Nodes :
       /\ tempBlockSigReceived[n] <= Cardinality(Children(n))
       /\ tempSignatureResponseReceived[n] <= Cardinality(Children(n))
       /\ \A p \in Nodes \ {n} :
            /\ Count(p, tempBlockSig[n]) <= 1
            /\ Count(p, tempSignatureResponse[n]) <= 1
  /\ Len(done) <= 1

\* n has run its fan-out of the given type
FannedOut(n, type) ==
  IF type = "BlockAnnounce"
    THEN IF IsRoot(n) THEN started ELSE block[n] # NoBlock
    ELSE vsTask[n].pc # "none"

\* c was sent the message of the given type: it is in flight or was received
WasSent(c, type) ==
  \/ InFlightTo(c, type, net)
  \/ IF type = "BlockAnnounce" THEN block[c] # NoBlock ELSE vsTask[c].pc # "none"

\* C22: when a send to one child fails during a fan-out (Start, a relayed
\* Announce, the root's SignatureRequest, a relayed SignatureRequest), the node
\* still sends to every other child, and it goes on as without the failure: its
\* verification is started and its loop is not stopped
C22_FanOutContinuesAfterFailure ==
  \A n \in Nodes : \A type \in {"BlockAnnounce", "RoundSignatureRequest"} :
    (~IsLeaf(n) /\ FannedOut(n, type)) =>
      /\ \A c \in Children(n) : <<c, type>> \notin sendFails => WasSent(c, type)
      /\ type = "BlockAnnounce" => vbTask[n] # "none"

\* C23: in a run in which the overlay has lost one Announce, phase-1 bundle,
\* SignatureRequest or phase-2 bundle, the completion callback is never invoked
C23_LostMessageNoCompletion == dropped # {} => done = <<>>

\* C23 witness: a phase-2 bundle was lost, the callback is registered and nothing
\* is in flight any more
C23_Witness ==
  /\ \E m \in dropped : m.type = "RoundSignatureResponse"
  /\ onDoneCallback
  /\ net = EmptyBag
  /\ done = <<>>

\* C24: every phase-2 bundle message sent to a parent holds exactly one
\* contribution, that of a leaf of the sender's subtree, and the bundle handed to
\* the callback holds exactly one contribution per child of the root and the
\* root's own
C24_Phase2OneContributionUp ==
  /\ \A m \in BagToSet(net) :
       m.type = "RoundSignatureResponse" =>
         /\ Size(Body(m)) = 1
         /\ \E l \in Subtree(m.src) : IsLeaf(l) /\ Count(l, Body(m)) = 1
  /\ \A i \in DOMAIN done :
       /\ Size(done[i]) = Cardinality(Children(Root)) + 1
       /\ Count(Root, done[i]) = 1

\* C24 witness: the callback has run in a tree with an internal node below the
\* root, so that N is larger than the number of the root's children plus one
C24_Witness ==
  /\ Len(done) = 1
  /\ \E n \in Nodes : ~IsLeaf(n) /\ ~IsRoot(n)
  /\ N > Cardinality(Children(Root)) + 1

\* C25: in the tree of the root alone, Start sends no message, the root's loop
\* stays at its select with no handler run, the root consumes no verification
\* result and makes no contribution in either phase, and the callback is never
\* invoked
C25_RootAloneDoesNothing ==
  N = 1 =>
    /\ net = EmptyBag
    /\ loop[Root] = Idle
    /\ vbTask[Root] # "done"
    /\ vsTask[Root] = NoTask
    /\ okSig[Root] = "none"
    /\ tempBlockSig[Root] = EmptyBundle
    /\ tempSignatureResponse[Root] = EmptyBundle
    /\ tempBlockSigReceived[Root] = 0
    /\ tempSignatureResponseReceived[Root] = 0
    /\ done = <<>>

\* C25 witness: the root alone was started with the callback registered and its
\* block verification has its result ready, which nothing will consume
C25_Witness ==
  /\ N = 1
  /\ started
  /\ onDoneCallback
  /\ vbTask[Root] = "send"

====
